---- MODULE Spec2Model ----
(***************************************************************************)
(* Model of src/process_data.py: the batch ETL job main() and its helper   *)
(* get_bucket_names_from_tfstate().  The process environment, the local    *)
(* Terraform state file and the object store are the job's inputs; main()  *)
(* is one straight-line run whose position is pc.                          *)
(***************************************************************************)
EXTENDS Integers, Sequences, FiniteSets, TLC

VARIABLES
    pc,                \* position of main(): see the actions below
    exc,               \* "" or the type of the exception that ended the run
    env,               \* os.environ: the set of variable names that are set
    tfstate,           \* terraform/terraform.tfstate: the file as found on disk
    s3,                \* the object store: bucket name -> its objects, in no particular order
    listable,          \* whether the store answers a listing of the source
    writable,          \* whether the store accepts a put into the destination
    raw_bucket,        \* main's local raw_bucket (a Python value)
    processed_bucket,  \* main's local processed_bucket (a Python value)
    objects,           \* main's local objects: the listing page, a sequence
    key,               \* main's local key
    input_path,        \* main's local input_path
    output_path,       \* main's local output_path
    df,                \* main's local df
    df_final,          \* main's local df_final
    io                 \* the store calls made so far, in order

vars == <<pc, exc, env, tfstate, s3, listable, writable, raw_bucket, processed_bucket,
          objects, key, input_path, output_path, df, df_final, io>>

(***************************************************************************)
(* Bounds of the model.                                                    *)
(***************************************************************************)
MaxRows == 1       \* rows in a dataset explored by the pipeline inputs
MaxTime == 2       \* LastModified stamps range over 1..MaxTime

\* list_objects_v2 returns one page of at most MaxKeys objects per call;
\* line 50 passes no MaxKeys, so the service default of 1000 applies, and
\* main() makes that single call.
MaxKeys == 1000

(***************************************************************************)
(* Python values: None, str, and the JSON containers json.load returns.    *)
(***************************************************************************)
NoItems == [k \in {} |-> 0]
PyNone == [kind |-> "none", str |-> "", items |-> NoItems]
PyStr(s) == [kind |-> "str", str |-> s, items |-> NoItems]
PyList == [kind |-> "list", str |-> "", items |-> NoItems]
PyDict(f) == [kind |-> "dict", str |-> "", items |-> f]

\* bool(v) as used by `not v`
Truthy(v) ==
    CASE v.kind = "none" -> FALSE
      [] v.kind = "str"  -> v.str # ""
      [] v.kind = "list" -> FALSE            \* only the empty list is modelled
      [] v.kind = "dict" -> DOMAIN v.items # {}

\* v[k] for a string k: the value, or the exception Python raises
Raise(e) == [ok |-> FALSE, exc |-> e, val |-> PyNone]
Value(v) == [ok |-> TRUE, exc |-> "", val |-> v]
Subscript(v, k) ==
    IF v.kind = "dict"
    THEN IF k \in DOMAIN v.items THEN Value(v.items[k]) ELSE Raise("KeyError")
    ELSE Raise("TypeError")

\* a[k1][k2][k3], left to right, stopping at the first exception
Subscript3(v, k1, k2, k3) ==
    LET r1 == Subscript(v, k1)
        r2 == IF r1.ok THEN Subscript(r1.val, k2) ELSE r1
        r3 == IF r2.ok THEN Subscript(r2.val, k3) ELSE r2
    IN r3

(***************************************************************************)
(* The Terraform state file.                                               *)
(***************************************************************************)
FileMissing == [exists |-> FALSE, parses |-> FALSE, json |-> PyNone]
FileGarbage == [exists |-> TRUE, parses |-> FALSE, json |-> PyNone]
FileJson(v) == [exists |-> TRUE, parses |-> TRUE, json |-> v]

\* get_bucket_names_from_tfstate: the pair returned, or the exception that
\* leaves the function.  FileNotFoundError and KeyError are caught.
GetBucketNamesUncaught(f) ==
    LET none2 == [ok |-> TRUE, exc |-> "", raw |-> PyNone, processed |-> PyNone]
        r == Subscript3(f.json, "outputs", "raw_data_bucket_name", "value")
        p == Subscript3(f.json, "outputs", "processed_data_bucket_name", "value")
        first == IF ~r.ok THEN r.exc ELSE IF ~p.ok THEN p.exc ELSE ""
    IN  IF ~f.exists THEN [none2 EXCEPT !.ok = FALSE, !.exc = "FileNotFoundError"]
        ELSE IF ~f.parses THEN [none2 EXCEPT !.ok = FALSE, !.exc = "JSONDecodeError"]
        ELSE IF first # "" THEN [none2 EXCEPT !.ok = FALSE, !.exc = first]
        ELSE [ok |-> TRUE, exc |-> "", raw |-> r.val, processed |-> p.val]

get_bucket_names_from_tfstate(f) ==
    LET res == GetBucketNamesUncaught(f)
    IN  IF ~res.ok /\ res.exc \in {"FileNotFoundError", "KeyError"}
        THEN [ok |-> TRUE, exc |-> "", raw |-> PyNone, processed |-> PyNone]
        ELSE res

(***************************************************************************)
(* Object keys are character strings; the store lists them in ascending    *)
(* byte order.                                                             *)
(***************************************************************************)
CharOrder ==
    <<"/", "0", "1", "2", "3", "4", "5", "6", "7", "8", "9",
      "a", "b", "i", "k", "p", "r", "s", "t">>
CharRank(c) == CHOOSE i \in 1..Len(CharOrder) : CharOrder[i] = c

RECURSIVE KeyLess(_, _)
KeyLess(a, b) ==
    IF a = <<>> THEN b # <<>>
    ELSE IF b = <<>> THEN FALSE
    ELSE IF Head(a) # Head(b) THEN CharRank(Head(a)) < CharRank(Head(b))
    ELSE KeyLess(Tail(a), Tail(b))

\* the objects of a bucket in the order the service lists them
ByKey(objs) == SortSeq(objs, LAMBDA x, y : KeyLess(x.Key, y.Key))

FirstN(seq, n) == SubSeq(seq, 1, IF Len(seq) < n THEN Len(seq) ELSE n)

\* s3.list_objects_v2(Bucket=b): one page, no ContinuationToken followed.
\* The response carries no 'Contents' entry when the page is empty.
list_objects_v2(store, b) ==
    LET page == FirstN(ByKey(store[b]), MaxKeys)
    IN  [has_contents |-> page # <<>>,
         Contents |-> [i \in 1..Len(page) |->
                          [Key |-> page[i].Key, LastModified |-> page[i].LastModified]]]

\* response.get('Contents', [])
GetContents(resp) == IF resp.has_contents THEN resp.Contents ELSE <<>>

\* max(objects, key=lambda x: x['LastModified']): the first maximal element
LatestObject(objs) ==
    objs[CHOOSE i \in 1..Len(objs) :
            /\ \A j \in 1..Len(objs) : objs[j].LastModified <= objs[i].LastModified
            /\ \A j \in 1..(i-1) : objs[j].LastModified < objs[i].LastModified]

\* f's3://{bucket}/{key}' and f's3://{bucket}/trips/{key}'
TripsPrefix == <<"t", "r", "i", "p", "s", "/">>
InputPath(bucket, k) == <<"s3://", bucket, "/">> \o k
\* (variant without the 'trips/' prefix: the destination key equals the source key)
OutputPathSameKey(bucket, k) == <<"s3://", bucket, "/">> \o k
OutputPath(bucket, k) == <<"s3://", bucket, "/">> \o TripsPrefix \o k

\* how the storage layer splits an s3:// URL back into bucket and key
UrlBucket(path) == path[2]
UrlKey(path) == SubSeq(path, 4, Len(path))

(***************************************************************************)
(* Cells of a dataset.  A number is the fraction v/d (d > 0); a timestamp  *)
(* is v seconds after the reference midnight; a text timestamp holds the   *)
(* clock digits HHMMSS of an ISO string on the reference day.              *)
(***************************************************************************)
Null == [kind |-> "null", v |-> 0, d |-> 1]
Ratio(n, m) == [kind |-> "num", v |-> n, d |-> m]
Num(n) == Ratio(n, 1)
Ts(t) == [kind |-> "ts", v |-> t, d |-> 1]
Text(n) == [kind |-> "str", v |-> n, d |-> 1]

\* series > n, series >= n, series <= n: False on a null
Gt(c, n) == c.kind = "num" /\ c.v > n * c.d
Ge(c, n) == c.kind = "num" /\ c.v >= n * c.d
Le(c, n) == c.kind = "num" /\ c.v <= n * c.d

\* pd.to_datetime on one cell
ClockValid(n) == (n \div 10000) < 24 /\ ((n \div 100) % 100) < 60 /\ (n % 100) < 60
ClockSeconds(n) == (n \div 10000) * 3600 + ((n \div 100) % 100) * 60 + (n % 100)
ToDatetimeOk(c) == c.kind = "str" => ClockValid(c.v)
to_datetime(c) == IF c.kind = "str" THEN Ts(ClockSeconds(c.v)) ELSE c

\* (dropoff - pickup).dt.total_seconds() / 60 on one row
\* (variant with the operands of the subtraction swapped)
DurationMinutesReversed(pickup, dropoff) ==
    IF pickup.kind = "ts" /\ dropoff.kind = "ts"
    THEN Ratio(pickup.v - dropoff.v, 60) ELSE Null
DurationMinutes(pickup, dropoff) ==
    IF pickup.kind = "ts" /\ dropoff.kind = "ts"
    THEN Ratio(dropoff.v - pickup.v, 60) ELSE Null

(***************************************************************************)
(* Data frames.  A frame is its column sequence and its rows; a row keeps  *)
(* the index label read_parquet gave it (0, 1, ...) and its cells by       *)
(* column name.  A stored parquet body has the same columns and the rows'  *)
(* cells without an index, or is not readable as parquet at all.           *)
(***************************************************************************)
Range(seq) == {seq[i] : i \in 1..Len(seq)}
NoFrame == [columns |-> <<>>, rows |-> <<>>]
Corrupt == [ok |-> FALSE, columns |-> <<>>, rows |-> <<>>]
Parquet(cols, rws) == [ok |-> TRUE, columns |-> cols, rows |-> rws]

\* pd.read_parquet(path) on a readable body
read_parquet(body) ==
    [columns |-> body.columns,
     rows |-> [i \in 1..Len(body.rows) |-> [idx |-> i - 1, cells |-> body.rows[i]]]]

\* df[(df['trip_distance'] > 0) & (df['fare_amount'] > 0)]
Stepped(f) == [ok |-> TRUE, exc |-> "", df |-> f]
Failed(e) == [ok |-> FALSE, exc |-> e, df |-> NoFrame]
\* (variants: with passenger_count > 0 as a third predicate; with | for &)
ValidTripOrPassengers(r) ==
    Gt(r.cells["trip_distance"], 0) /\ Gt(r.cells["fare_amount"], 0)
        /\ ("passenger_count" \in DOMAIN r.cells => Gt(r.cells["passenger_count"], 0))
ValidTripEither(r) == Gt(r.cells["trip_distance"], 0) \/ Gt(r.cells["fare_amount"], 0)
ValidTrip(r) == Gt(r.cells["trip_distance"], 0) /\ Gt(r.cells["fare_amount"], 0)
FilterInvalidTrips(f) ==
    IF "trip_distance" \notin Range(f.columns) \/ "fare_amount" \notin Range(f.columns)
    THEN Failed("KeyError")
    ELSE Stepped([f EXCEPT !.rows = SelectSeq(f.rows, ValidTrip)])

\* df[c] = value: an existing column keeps its place, a new one goes last
SetColumn(cols, c) == IF c \in Range(cols) THEN cols ELSE Append(cols, c)
SetCell(r, c, val) ==
    [r EXCEPT !.cells = [x \in DOMAIN r.cells \cup {c} |->
                            IF x = c THEN val ELSE r.cells[x]]]

\* lines 73-75: both timestamp columns through pd.to_datetime, then the
\* derived column
AddDuration(f) ==
    LET P == "tpep_pickup_datetime"
        D == "tpep_dropoff_datetime"
        Conv(r) == SetCell(SetCell(r, P, to_datetime(r.cells[P])),
                           D, to_datetime(r.cells[D]))
        Derive(r) == SetCell(r, "trip_duration_minutes",
                             DurationMinutes(r.cells[P], r.cells[D]))
    IN  IF P \notin Range(f.columns) THEN Failed("KeyError")
        ELSE IF \E i \in 1..Len(f.rows) : ~ToDatetimeOk(f.rows[i].cells[P])
        THEN Failed("ValueError")
        ELSE IF D \notin Range(f.columns) THEN Failed("KeyError")
        ELSE IF \E i \in 1..Len(f.rows) : ~ToDatetimeOk(f.rows[i].cells[D])
        THEN Failed("ValueError")
        ELSE Stepped([columns |-> SetColumn(f.columns, "trip_duration_minutes"),
                      rows |-> [i \in 1..Len(f.rows) |-> Derive(Conv(f.rows[i]))]])

\* df[(df['trip_duration_minutes'] >= 1) & (df['trip_duration_minutes'] <= 120)]
\* (variant with both bounds exclusive)
InRangeExclusive(r) ==
    Gt(r.cells["trip_duration_minutes"], 1) /\ Le(r.cells["trip_duration_minutes"], 120)
        /\ ~Ge(r.cells["trip_duration_minutes"], 120)
InRange(r) ==
    Ge(r.cells["trip_duration_minutes"], 1) /\ Le(r.cells["trip_duration_minutes"], 120)
FilterOutliers(f) == [f EXCEPT !.rows = SelectSeq(f.rows, InRange)]

final_columns ==
    <<"vendorid", "tpep_pickup_datetime", "tpep_dropoff_datetime", "passenger_count",
      "trip_distance", "ratecodeid", "pulocationid", "dolocationid", "payment_type",
      "fare_amount", "extra", "mta_tax", "tip_amount", "tolls_amount",
      "improvement_surcharge", "total_amount", "congestion_surcharge", "airport_fee",
      "trip_duration_minutes">>

\* df[[col for col in final_columns if col in df.columns]]
\* (variant iterating df.columns instead of final_columns)
SelectColumnsInputOrder(f) ==
    LET keep == SelectSeq(f.columns, LAMBDA c : c \in Range(final_columns))
    IN  [columns |-> keep,
         rows |-> [i \in 1..Len(f.rows) |->
                     [f.rows[i] EXCEPT !.cells = [c \in Range(keep) |-> f.rows[i].cells[c]]]]]
SelectColumns(f) ==
    LET keep == SelectSeq(final_columns, LAMBDA c : c \in Range(f.columns))
    IN  [columns |-> keep,
         rows |-> [i \in 1..Len(f.rows) |->
                     [f.rows[i] EXCEPT !.cells = [c \in Range(keep) |-> f.rows[i].cells[c]]]]]

\* df_final.to_parquet(path, index=False): the body that is stored
to_parquet(f) ==
    Parquet(f.columns, [i \in 1..Len(f.rows) |-> f.rows[i].cells])

(***************************************************************************)
(* The inputs of a run: the process environment, the state file and the    *)
(* contents of the object store.                                           *)
(***************************************************************************)
EnvValue ==
    [AWS_EXECUTION_ENV |-> "AWS_ECS_FARGATE",
     RAW_BUCKET_NAME |-> "env-raw",
     PROCESSED_BUCKET_NAME |-> "env-proc"]
Environments == {[n \in S |-> EnvValue[n]] : S \in SUBSET DOMAIN EnvValue}
NoEnvironment == [n \in {} |-> ""]

AllBuckets == {"raw-b", "proc-b", "env-raw", "env-proc"}

Absent == [kind |-> "absent", str |-> "", items |-> NoItems]
Output(v) == PyDict([k \in {"value"} |-> v])
RawEntries ==
    {Absent, PyStr("raw-b"), PyDict(NoItems),
     Output(PyNone), Output(PyStr("")), Output(PyStr("raw-b"))}
ProcessedEntries == RawEntries \cup {Output(PyStr("proc-b"))}
Outputs(r, p) ==
    PyDict([k \in {x \in {"raw_data_bucket_name", "processed_data_bucket_name"} :
                     (IF x = "raw_data_bucket_name" THEN r ELSE p) # Absent}
              |-> IF k = "raw_data_bucket_name" THEN r ELSE p])
State(outputs) == FileJson(PyDict([k \in {"outputs"} |-> outputs]))
TfstateFiles ==
    {FileMissing, FileGarbage, FileJson(PyList), FileJson(PyDict(NoItems)), State(PyList)}
        \cup {State(Outputs(r, p)) : r \in RawEntries, p \in ProcessedEntries}
ProvisionedState == State(Outputs(Output(PyStr("raw-b")), Output(PyStr("proc-b"))))

KeyA == <<"a">>
KeyB == <<"b">>
KeyTripsA == TripsPrefix \o <<"a">>
Keys == {KeyA, KeyB, KeyTripsA}

\* the keys k000, k001, ... of a bucket that fills one listing page
Digit(n) == CharOrder[n + 2]
BulkKey(n) == <<"k", Digit(n \div 100), Digit((n \div 10) % 10), Digit(n % 10)>>

\* candidate cells of one trip record
Distances == {Null, Num(-1), Num(0), Num(2)}
Fares == {Null, Num(-1), Num(0), Num(5)}
PassengerCounts == {Null, Num(0), Num(1)}
Times ==
    {<<Null, Ts(120)>>, <<Ts(60), Null>>,
     <<Ts(60), Ts(0)>>, <<Ts(60), Ts(90)>>, <<Ts(60), Ts(120)>>,
     <<Ts(60), Ts(7260)>>, <<Ts(60), Ts(7261)>>,
     <<Text(100), Text(10100)>>, <<Ts(60), Text(199)>>}

SchemaYellow ==
    <<"vendorid", "tpep_pickup_datetime", "tpep_dropoff_datetime", "passenger_count",
      "trip_distance", "store_and_fwd_flag", "fare_amount", "total_amount">>
SchemaDerived ==
    <<"trip_duration_minutes", "total_amount", "store_and_fwd_flag", "fare_amount",
      "trip_distance", "tpep_dropoff_datetime", "tpep_pickup_datetime">>
Without(cols, c) == SelectSeq(cols, LAMBDA x : x # c)
Schemas ==
    {SchemaYellow, SchemaDerived}
        \cup {Without(SchemaYellow, c) :
                c \in {"trip_distance", "fare_amount",
                       "tpep_pickup_datetime", "tpep_dropoff_datetime"}}

Record(cols, dist, fare, count, times) ==
    [c \in Range(cols) |->
        CASE c = "trip_distance" -> dist
          [] c = "fare_amount" -> fare
          [] c = "passenger_count" -> count
          [] c = "tpep_pickup_datetime" -> times[1]
          [] c = "tpep_dropoff_datetime" -> times[2]
          [] OTHER -> Num(5)]
Records(cols) ==
    {Record(cols, dist, fare, count, times) :
        dist \in Distances, fare \in Fares, count \in PassengerCounts, times \in Times}

SampleBody ==
    Parquet(SchemaYellow,
            <<Record(SchemaYellow, Num(2), Num(5), Num(1), <<Ts(60), Ts(120)>>)>>)

Object(k, t, bd) == [Key |-> k, LastModified |-> t, body |-> bd]
Bucket(content) == [b \in AllBuckets |-> IF b = "raw-b" THEN content ELSE <<>>]
StoreOrder == <<KeyTripsA, KeyB, KeyA>>
Listing(S, t, bd) ==
    LET ks == SelectSeq(StoreOrder, LAMBDA k : k \in S)
    IN  [i \in 1..Len(ks) |-> Object(ks[i], t[ks[i]], bd)]
Listings ==
    {Listing(S, t, bd) :
        S \in SUBSET Keys, t \in [Keys -> 1..MaxTime], bd \in {Corrupt, SampleBody}}

SharedBucketState == State(Outputs(Output(PyStr("raw-b")), Output(PyStr("raw-b"))))
SampleListing == <<Object(KeyA, 1, SampleBody)>>

\* every environment and every state file, over one stored object
InitConfig ==
    /\ env \in Environments
    /\ tfstate \in TfstateFiles
    /\ s3 = Bucket(SampleListing)
    /\ listable = TRUE
    /\ writable = TRUE

\* a local run, with or without the bucket variables set, over every
\* listing of the source bucket; the destination is the provisioned bucket
\* or the source bucket itself
InitStore ==
    /\ env \in {e \in Environments : "AWS_EXECUTION_ENV" \notin DOMAIN e}
    /\ tfstate \in {ProvisionedState, SharedBucketState}
    /\ s3 \in {Bucket(c) : c \in Listings}
    /\ listable \in BOOLEAN
    /\ writable \in BOOLEAN

\* a provisioned local run over every dataset
InitPipeline ==
    /\ env = NoEnvironment
    /\ tfstate = ProvisionedState
    /\ \E cols \in Schemas, n \in 0..MaxRows :
          \E rws \in [1..n -> Records(cols)] :
             s3 = Bucket(<<Object(KeyA, 1, Parquet(cols, rws))>>)
    /\ listable = TRUE
    /\ writable = TRUE

\* a provisioned local run over a source bucket one object larger than a
\* listing page: MaxKeys older objects and a newer one whose key sorts last
InitLargeBucket ==
    /\ env = NoEnvironment
    /\ tfstate = ProvisionedState
    /\ \E t \in 1..MaxTime, bd \in {Corrupt, SampleBody} :
          s3 = Bucket([i \in 1..(MaxKeys + 1) |->
                          IF i = 1 THEN Object(KeyTripsA, t, bd)
                          ELSE Object(BulkKey(i - 2), 1, bd)])
    /\ listable = TRUE
    /\ writable = TRUE

Init ==
    /\ pc = "start"
    /\ exc = ""
    /\ raw_bucket = PyNone
    /\ processed_bucket = PyNone
    /\ objects = <<>>
    /\ key = <<>>
    /\ input_path = <<>>
    /\ output_path = <<>>
    /\ df = NoFrame
    /\ df_final = NoFrame
    /\ io = <<>>
    /\ (InitConfig \/ InitStore \/ InitPipeline \/ InitLargeBucket)

(***************************************************************************)
(* main(), one action per step and outcome.                                *)
(***************************************************************************)
Call(op, b, k) == [op |-> op, bucket |-> b, key |-> k]
Locals == <<raw_bucket, processed_bucket, objects, key, input_path, output_path>>
World == <<env, tfstate, listable, writable>>

\* lines 31-39: in a cloud execution environment main() returns at once
CloudReturn ==
    /\ pc = "start"
    /\ "AWS_EXECUTION_ENV" \in DOMAIN env
    /\ pc' = "returned"
    /\ UNCHANGED <<exc, World, s3, Locals, df, df_final, io>>

\* lines 40-42: otherwise the bucket names come from the state file
FallbackToTfstate ==
    /\ pc = "start"
    /\ "AWS_EXECUTION_ENV" \notin DOMAIN env
    /\ LET res == get_bucket_names_from_tfstate(tfstate)
       IN  /\ res.ok
           /\ raw_bucket' = res.raw
           /\ processed_bucket' = res.processed
    /\ pc' = "names"
    /\ UNCHANGED <<exc, World, s3, objects, key, input_path, output_path, df, df_final, io>>

\* line 42: an exception get_bucket_names_from_tfstate does not catch
FallbackToTfstateRaises ==
    /\ pc = "start"
    /\ "AWS_EXECUTION_ENV" \notin DOMAIN env
    /\ LET res == get_bucket_names_from_tfstate(tfstate)
       IN  /\ ~res.ok
           /\ exc' = res.exc
    /\ pc' = "raised"
    /\ UNCHANGED <<World, s3, Locals, df, df_final, io>>

\* lines 44-46
NamesUnresolved ==
    /\ pc = "names"
    /\ ~Truthy(raw_bucket) \/ ~Truthy(processed_bucket)
    /\ pc' = "returned"
    /\ UNCHANGED <<exc, World, s3, Locals, df, df_final, io>>

\* lines 49-50
ListObjects ==
    /\ pc = "names"
    /\ Truthy(raw_bucket) /\ Truthy(processed_bucket)
    /\ listable
    /\ objects' = GetContents(list_objects_v2(s3, raw_bucket.str))
    /\ io' = Append(io, Call("list", raw_bucket.str, <<>>))
    /\ pc' = "listed"
    /\ UNCHANGED <<exc, World, s3, raw_bucket, processed_bucket, key, input_path,
                   output_path, df, df_final>>

\* lines 49-50, the client or the listing raises (no credentials, access
\* denied, no such bucket)
ListObjectsRaises ==
    /\ pc = "names"
    /\ Truthy(raw_bucket) /\ Truthy(processed_bucket)
    /\ ~listable
    /\ io' = Append(io, Call("list", raw_bucket.str, <<>>))
    /\ exc' = "ClientError"
    /\ pc' = "raised"
    /\ UNCHANGED <<World, s3, Locals, df, df_final>>

\* (variant of lines 51-53 without the emptiness test: max() of an empty list raises)
EmptySourceUnchecked ==
    /\ pc = "listed"
    /\ objects = <<>>
    /\ exc' = "ValueError"
    /\ pc' = "raised"
    /\ UNCHANGED <<World, s3, Locals, df, df_final, io>>

\* lines 51-53
EmptySource ==
    /\ pc = "listed"
    /\ objects = <<>>
    /\ pc' = "returned"
    /\ UNCHANGED <<exc, World, s3, Locals, df, df_final, io>>

\* lines 55-60
SelectLatest ==
    /\ pc = "listed"
    /\ objects # <<>>
    /\ LET latest_object == LatestObject(objects)
       IN  /\ key' = latest_object.Key
           /\ input_path' = InputPath(raw_bucket.str, latest_object.Key)
           /\ output_path' = OutputPath(processed_bucket.str, latest_object.Key)
    /\ pc' = "read"
    /\ UNCHANGED <<exc, World, s3, raw_bucket, processed_bucket, objects, df, df_final, io>>

\* the object a path names, as the storage layer resolves it
Exists(path) ==
    \E i \in 1..Len(s3[UrlBucket(path)]) : s3[UrlBucket(path)][i].Key = UrlKey(path)
Stored(path) ==
    LET objs == s3[UrlBucket(path)]
    IN  objs[CHOOSE i \in 1..Len(objs) : objs[i].Key = UrlKey(path)]

\* line 63, the object is readable parquet
ReadParquet ==
    /\ pc = "read"
    /\ Exists(input_path) /\ Stored(input_path).body.ok
    /\ df' = read_parquet(Stored(input_path).body)
    /\ io' = Append(io, Call("get", UrlBucket(input_path), UrlKey(input_path)))
    /\ pc' = "clean"
    /\ UNCHANGED <<exc, World, s3, Locals, df_final>>

\* line 63, the object is missing or is not parquet
ReadParquetRaises ==
    /\ pc = "read"
    /\ ~(Exists(input_path) /\ Stored(input_path).body.ok)
    /\ io' = Append(io, Call("get", UrlBucket(input_path), UrlKey(input_path)))
    /\ exc' = "ReadError"
    /\ pc' = "raised"
    /\ UNCHANGED <<World, s3, Locals, df, df_final>>

\* lines 69-70
CleanInvalidTrips ==
    /\ pc = "clean"
    /\ FilterInvalidTrips(df).ok
    /\ df' = FilterInvalidTrips(df).df
    /\ pc' = "derive"
    /\ UNCHANGED <<exc, World, s3, Locals, df_final, io>>

\* line 69 on a schema without trip_distance or fare_amount
CleanInvalidTripsRaises ==
    /\ pc = "clean"
    /\ ~FilterInvalidTrips(df).ok
    /\ exc' = FilterInvalidTrips(df).exc
    /\ pc' = "raised"
    /\ UNCHANGED <<World, s3, Locals, df, df_final, io>>

\* lines 73-75
DeriveDuration ==
    /\ pc = "derive"
    /\ AddDuration(df).ok
    /\ df' = AddDuration(df).df
    /\ pc' = "outliers"
    /\ UNCHANGED <<exc, World, s3, Locals, df_final, io>>

\* lines 73-74 on a missing timestamp column or an unparseable timestamp
DeriveDurationRaises ==
    /\ pc = "derive"
    /\ ~AddDuration(df).ok
    /\ exc' = AddDuration(df).exc
    /\ pc' = "raised"
    /\ UNCHANGED <<World, s3, Locals, df, df_final, io>>

\* lines 78-79
CleanOutliers ==
    /\ pc = "outliers"
    /\ df' = FilterOutliers(df)
    /\ pc' = "project"
    /\ UNCHANGED <<exc, World, s3, Locals, df_final, io>>

\* lines 82-90
Project ==
    /\ pc = "project"
    /\ df_final' = SelectColumns(df)
    /\ pc' = "write"
    /\ UNCHANGED <<exc, World, s3, Locals, df, io>>

\* lines 92-95: the put replaces whatever the destination key held
WriteParquet ==
    /\ pc = "write"
    /\ writable
    /\ LET b == UrlBucket(output_path)
           k == UrlKey(output_path)
           obj == Object(k, MaxTime + 1, to_parquet(df_final))
       IN  /\ s3' = [s3 EXCEPT ![b] =
                        IF Exists(output_path)
                        THEN [i \in 1..Len(s3[b]) |->
                                IF s3[b][i].Key = k THEN obj ELSE s3[b][i]]
                        ELSE Append(s3[b], obj)]
           /\ io' = Append(io, Call("put", b, k))
    /\ pc' = "done"
    /\ UNCHANGED <<exc, World, Locals, df, df_final>>

\* line 93, the store refuses the put
WriteParquetRaises ==
    /\ pc = "write"
    /\ ~writable
    /\ io' = Append(io, Call("put", UrlBucket(output_path), UrlKey(output_path)))
    /\ exc' = "WriteError"
    /\ pc' = "raised"
    /\ UNCHANGED <<World, s3, Locals, df, df_final>>

Next ==
    \/ CloudReturn
    \/ FallbackToTfstate
    \/ FallbackToTfstateRaises
    \/ NamesUnresolved
    \/ ListObjects
    \/ ListObjectsRaises
    \/ EmptySource
    \/ SelectLatest
    \/ ReadParquet
    \/ ReadParquetRaises
    \/ CleanInvalidTrips
    \/ CleanInvalidTripsRaises
    \/ DeriveDuration
    \/ DeriveDurationRaises
    \/ CleanOutliers
    \/ Project
    \/ WriteParquet
    \/ WriteParquetRaises

Spec == Init /\ [][Next]_vars

(***************************************************************************)
(* Properties.                                                             *)
(***************************************************************************)
Done == pc = "done"
InputBody == Stored(input_path).body
WrittenBody == Stored(output_path).body
InputRows == 1..Len(InputBody.rows)
WrittenRows == 1..Len(WrittenBody.rows)
\* the input row a written row came from: df_final keeps the index label
\* read_parquet gave it, and to_parquet stores the rows in df_final's order
Origin(j) == InputBody.rows[df_final.rows[j].idx + 1]
IsWritten(i) == \E j \in WrittenRows : df_final.rows[j].idx = i - 1

Positive(c) == c.kind = "num" /\ c.v > 0 /\ c.d > 0
HasInstant(c) == c.kind \in {"ts", "str"}
Instant(c) == IF c.kind = "str" THEN ClockSeconds(c.v) ELSE c.v
Elapsed(r) == Instant(r["tpep_dropoff_datetime"]) - Instant(r["tpep_pickup_datetime"])
Timed(r) == HasInstant(r["tpep_pickup_datetime"]) /\ HasInstant(r["tpep_dropoff_datetime"])
ValidInput(r) == Positive(r["trip_distance"]) /\ Positive(r["fare_amount"])
DurationInBounds(r) == Timed(r) /\ 60 <= Elapsed(r) /\ Elapsed(r) <= 7200

\* C1: every row main() writes has a non-null trip_distance > 0 and a
\* non-null fare_amount > 0, and no input row whose trip_distance or
\* fare_amount is null, zero or negative is written.
C1_ValidityProfile ==
    Done =>
        /\ \A j \in WrittenRows :
              /\ Positive(WrittenBody.rows[j]["trip_distance"])
              /\ Positive(WrittenBody.rows[j]["fare_amount"])
        /\ \A i \in InputRows : ~ValidInput(InputBody.rows[i]) => ~IsWritten(i)
C1_Witness ==
    /\ Done
    /\ \E j \in WrittenRows :
          /\ WrittenBody.rows[j]["trip_distance"] = Num(2)
          /\ WrittenBody.rows[j]["fare_amount"] = Num(5)

\* C2 as stated: no row main() writes has passenger_count <= 0.
C2_NoZeroPassengers ==
    Done =>
        \A j \in WrittenRows :
            "passenger_count" \in DOMAIN WrittenBody.rows[j] =>
                ~(WrittenBody.rows[j]["passenger_count"].kind = "num"
                    /\ WrittenBody.rows[j]["passenger_count"].v <= 0)

\* C2 amended: passenger_count is not a filter predicate of main(); an input
\* row whose passenger_count is 0 or null is written exactly when its
\* trip_distance and fare_amount are positive and its duration lies in
\* [1, 120] minutes.
C2_PassengerCountNotFiltered ==
    Done =>
        \A i \in InputRows :
            LET r == InputBody.rows[i]
            IN  ("passenger_count" \in DOMAIN r /\ ~Positive(r["passenger_count"]))
                    => (IsWritten(i) <=> (ValidInput(r) /\ DurationInBounds(r)))
C2_Witness ==
    /\ Done
    /\ \E j \in WrittenRows :
          /\ "passenger_count" \in DOMAIN WrittenBody.rows[j]
          /\ WrittenBody.rows[j]["passenger_count"] = Num(0)

\* C3: in a completed run, an input row that passes the validity filter is
\* written if and only if both its timestamps are non-null and
\* 60 s <= dropoff - pickup <= 7200 s, both bounds included.
C3_OutlierFilter ==
    Done =>
        \A i \in InputRows :
            ValidInput(InputBody.rows[i])
                => (IsWritten(i) <=> DurationInBounds(InputBody.rows[i]))
C3_Witness ==
    /\ Done
    /\ \E j \in WrittenRows : Elapsed(Origin(j)) = 7200

\* C4: the written dataset has the column trip_duration_minutes, and in every
\* written row it is (dropoff - pickup) in seconds divided by 60, while the
\* row's pickup and dropoff are the instants of the input row.
C4_DurationDerivation ==
    Done =>
        /\ "trip_duration_minutes" \in Range(WrittenBody.columns)
        /\ \A j \in WrittenRows :
              LET w == WrittenBody.rows[j]
                  m == w["trip_duration_minutes"]
              IN  /\ m.kind = "num" /\ m.d > 0
                  /\ m.v * 60 = Elapsed(Origin(j)) * m.d
                  /\ w["tpep_pickup_datetime"] = Ts(Instant(Origin(j)["tpep_pickup_datetime"]))
                  /\ w["tpep_dropoff_datetime"] = Ts(Instant(Origin(j)["tpep_dropoff_datetime"]))
C4_Witness ==
    /\ Done
    /\ \E j \in WrittenRows :
          /\ Elapsed(Origin(j)) = 3600
          /\ WrittenBody.rows[j]["trip_duration_minutes"].v
                = 60 * WrittenBody.rows[j]["trip_duration_minutes"].d

\* C5 as stated: the written columns are the allow-list restricted to the
\* columns of the input schema, in allow-list order.
C5_AllowListOfInputSchema ==
    Done =>
        WrittenBody.columns
            = SelectSeq(final_columns, LAMBDA c : c \in Range(InputBody.columns))

\* C5 amended: the written columns are the allow-list restricted to the
\* input schema plus the derived trip_duration_minutes, in allow-list order;
\* a write happens only if the input has trip_distance, fare_amount and both
\* timestamp columns, and a run that ends in KeyError lacks one of them.
RequiredColumns ==
    {"trip_distance", "fare_amount", "tpep_pickup_datetime", "tpep_dropoff_datetime"}
C5_AllowListOfDerivedSchema ==
    /\ Done =>
          /\ WrittenBody.columns
                = SelectSeq(final_columns,
                            LAMBDA c : c \in Range(InputBody.columns)
                                                \cup {"trip_duration_minutes"})
          /\ RequiredColumns \subseteq Range(InputBody.columns)
    /\ (pc = "raised" /\ exc = "KeyError")
          => ~(RequiredColumns \subseteq Range(InputBody.columns))
C5_Witness ==
    /\ Done
    /\ InputBody.columns = SchemaDerived
    /\ WrittenBody.columns
          = <<"tpep_pickup_datetime", "tpep_dropoff_datetime", "trip_distance",
              "fare_amount", "total_amount", "trip_duration_minutes">>

\* C6 as stated: the object selected for reading carries the greatest
\* modification stamp of all objects stored in the source bucket.
C6_LatestOfAllObjects ==
    pc = "read" =>
        \A i \in 1..Len(s3[raw_bucket.str]) :
            s3[raw_bucket.str][i].LastModified <= Stored(input_path).LastModified

\* C7 as stated: when RAW_BUCKET_NAME and PROCESSED_BUCKET_NAME are set, the
\* run's source and destination buckets are their values.
C7_EnvironmentNamesUsed ==
    ({"RAW_BUCKET_NAME", "PROCESSED_BUCKET_NAME"} \subseteq DOMAIN env
        /\ pc \notin {"start", "returned", "raised"})
        => /\ raw_bucket = PyStr(env["RAW_BUCKET_NAME"])
           /\ processed_bucket = PyStr(env["PROCESSED_BUCKET_NAME"])

\* C8 as stated: when the state file yields no usable pair of names (and the
\* environment supplies none), main() returns without raising and without
\* any call to the store.
StateFileUsable ==
    LET r == Subscript3(tfstate.json, "outputs", "raw_data_bucket_name", "value")
        p == Subscript3(tfstate.json, "outputs", "processed_data_bucket_name", "value")
    IN  /\ tfstate.exists /\ tfstate.parses
        /\ r.ok /\ Truthy(r.val)
        /\ p.ok /\ Truthy(p.val)
C8_SoftStop ==
    (pc # "start" /\ ~StateFileUsable
        /\ ~({"RAW_BUCKET_NAME", "PROCESSED_BUCKET_NAME"} \subseteq DOMAIN env))
        => /\ pc \in {"names", "returned"}
           /\ exc = ""
           /\ io = <<>>

\* C9: once the listing of the source bucket has come back (it did not
\* raise) and is empty, main()
\* returns normally: no exception, no read and no write, the listing being
\* the only call made to the store.
C9_EmptySource ==
    (Len(io) >= 1 /\ objects = <<>> /\ exc # "ClientError")
        => /\ exc = ""
           /\ io = <<Call("list", raw_bucket.str, <<>>)>>
           /\ \/ pc = "returned"
              \/ pc = "listed" /\ ENABLED EmptySource
C9_Witness ==
    pc = "returned" /\ Len(io) = 1 /\ objects = <<>>

\* C10: the store is called in the order list, read, write, each at most
\* once; the transformation runs only after the read; a failed read ends the
\* run with no write; the write goes to 'trips/' + key in the destination
\* bucket, which is not the location read.
C10_LinearRun ==
    /\ Len(io) <= 3
    /\ Len(io) >= 1 => io[1] = Call("list", raw_bucket.str, <<>>)
    /\ Len(io) >= 2 => io[2] = Call("get", raw_bucket.str, key)
    /\ Len(io) >= 3 =>
          /\ io[3] = Call("put", processed_bucket.str, TripsPrefix \o key)
          /\ <<io[3].bucket, io[3].key>> # <<io[2].bucket, io[2].key>>
          /\ pc = "done" \/ (pc = "raised" /\ exc = "WriteError")
    /\ pc \in {"clean", "derive", "outliers", "project", "write"} => Len(io) = 2
    /\ pc = "done" => Len(io) = 3
    /\ exc = "ReadError" => pc = "raised" /\ Len(io) = 2
C10_Witness ==
    /\ pc = "done"
    /\ io[3].bucket = io[2].bucket
    /\ io[2].key = KeyTripsA
====
